---- MODULE Spec2Model ----
(***************************************************************************)
(* Model of vtuber_analytics: analytics.py (key rotation, quota-aware      *)
(* execution, pagination, batch fetching, the per-channel main loop) and   *)
(* test.py (single-key playlist/videos fetch with retry).                  *)
(*                                                                         *)
(* The remote API is a fixture: what it answers to a request is fixed by   *)
(* the Remote* definitions, while failures (quota rejections and other     *)
(* HttpErrors) are chosen nondeterministically at every attempt.           *)
(***************************************************************************)
EXTENDS Integers, Sequences, FiniteSets, TLC

\* ------------------------------------------------------------------ bounds
MaxKeys  == 3      \* largest credential pool
MaxUrls  == 2      \* longest channel list
max_pages == 3     \* page cap of list_video_ids_in_period (50 in the source)
BatchSize == 2     \* ids per videos.list call (50 in the source)
MaxPlaylistPages == 4  \* pages after which an endless playlist is no longer followed
MaxRefs  == 3      \* longest channel list of the runs that only resolve references
MaxItems == 3      \* longest list of fetched videos handed to the aggregation loops
MaxSegs  == 2      \* most path segments of a reference handed to extract_from_url on its own

\* ------------------------------------------------------------------ values
NoTok == 0                       \* pageToken=None / absent nextPageToken
Blank == <<>>                    \* "" in a CSV cell that otherwise holds a number
Some(x) == <<x>>
Junk == <<0, 0>>                 \* a value int() cannot parse

RECURSIVE SumSeq(_)
SumSeq(s) == IF s = <<>> THEN 0 ELSE Head(s) + SumSeq(Tail(s))

RECURSIVE Concat(_)
Concat(ss) == IF ss = <<>> THEN <<>> ELSE Head(ss) \o Concat(Tail(ss))

\* ------------------------------------------------------------------ HttpError
\* An HttpError as the code inspects it: resp.status and the reason in content.
HttpErrors ==
  { [status |-> 403, reason |-> "quotaExceeded"],
    [status |-> 403, reason |-> "dailyLimitExceeded"],
    [status |-> 403, reason |-> "forbidden"],
    [status |-> 404, reason |-> "playlistNotFound"],
    [status |-> 500, reason |-> "backendError"] }

NoErr == [status |-> 0, reason |-> "none"]

is_quota_error_any403(e) == e.status = 403

is_quota_error(e) ==
  IF e.status = 403
    THEN e.reason = "quotaExceeded" \/ e.reason = "dailyLimitExceeded"
    ELSE FALSE

\* ------------------------------------------------------------------ ApiKeyRotator
\* build("youtube", "v3", developerKey=k): a client handle bound to k.
build(k) == [developerKey |-> k]

\* Credential pools: 1..MaxKeys distinct keys (key i is the i-th of the file).
Pools == { [i \in 1..n |-> i] : n \in 1..MaxKeys }

\* ApiKeyRotator.__init__: idx = 0 and a client for keys[0].
RotatorInit(ks) == [keys |-> ks, idx |-> 0, client |-> build(ks[1])]

next_wraps(r) ==
  LET j == (r.idx + 1) % Len(r.keys)
  IN [ret |-> TRUE, rot |-> [r EXCEPT !.idx = j, !.client = build(r.keys[j + 1])]]

next_stale_client(r) ==
  IF r.idx + 1 >= Len(r.keys)
    THEN [ret |-> FALSE, rot |-> r]
    ELSE [ret |-> TRUE, rot |-> [r EXCEPT !.idx = r.idx + 1]]

next_no_bound(r) ==
  [ret |-> TRUE, rot |-> [r EXCEPT !.idx = r.idx + 1]]

\* ApiKeyRotator.next: the return value and the rotator afterwards.
next(r) ==
  IF r.idx + 1 >= Len(r.keys)
    THEN [ret |-> FALSE, rot |-> r]
    ELSE [ret |-> TRUE,
          rot |-> [r EXCEPT !.idx = r.idx + 1,
                            !.client = build(r.keys[r.idx + 2])]]

with_quota_rotation_except_raise_after_rotate(r, e) ==
  IF is_quota_error(e)
    THEN LET n == next(r)
         IN [raise |-> TRUE, exc |-> e, rot |-> n.rot, called |-> TRUE, ret |-> n.ret]
    ELSE [raise |-> TRUE, exc |-> e, rot |-> r, called |-> FALSE, ret |-> FALSE]

\* The except branch of with_quota_rotation for one failed attempt: either the
\* loop continues (raise = FALSE) on the rotated pool, or e is re-raised.
\* called / ret: whether rotator.next() was called and what it returned.
with_quota_rotation_except(r, e) ==
  IF is_quota_error(e)
    THEN LET n == next(r)
         IN IF ~n.ret
              THEN [raise |-> TRUE, exc |-> e, rot |-> n.rot,
                    called |-> TRUE, ret |-> n.ret]
              ELSE [raise |-> FALSE, exc |-> NoErr, rot |-> n.rot,
                    called |-> TRUE, ret |-> n.ret]
    ELSE [raise |-> TRUE, exc |-> e, rot |-> r, called |-> FALSE, ret |-> FALSE]

\* ------------------------------------------------------------------ raw references
\* A path segment as the patterns of extract_from_url see it: its prefix
\* ("@", "UC" or none), the rest of its text and how many [\w-] characters
\* follow the prefix.
Seg(p, b, n) == [pre |-> p, body |-> b, len |-> n]
NoSeg == Seg("", "", 0)          \* "" / None where a segment or an id is expected

UC1 == Seg("UC", "1", 22)
UC2 == Seg("UC", "2", 22)
UC3 == Seg("UC", "3", 22)
UC4 == Seg("UC", "4", 22)
UC5 == Seg("UC", "5", 22)
Word(w) == Seg("", w, 1)
At(h)   == Seg("@", h, 1)

\* A raw reference after urlparse: whether it had scheme://host, the segments
\* of u.path stripped of "/", and the value of the channel= query parameter.
Url(segs)      == [scheme |-> TRUE,  path |-> segs, channel |-> NoSeg]
Bare(segs)     == [scheme |-> FALSE, path |-> segs, channel |-> NoSeg]
UrlQuery(c)    == [scheme |-> TRUE,  path |-> <<>>, channel |-> c]

\* re.match(r"^channel/(UC[\w-]{20,})$", path)
MatchChannel(path) ==
  /\ Len(path) = 2
  /\ path[1] = Word("channel")
  /\ path[2].pre = "UC"
  /\ path[2].len >= 20

extract_from_url_no_id_rule(url) ==
  IF ~url.scheme /\ url.path # <<>> /\ url.path[1].pre = "@"
    THEN [kind |-> "handle", value |-> url.path]
  ELSE IF url.path # <<>> /\ url.path[1].pre = "@"
    THEN [kind |-> "handle", value |-> <<url.path[1]>>]
  ELSE IF Len(url.path) = 2 /\ url.path[1] = Word("user")
    THEN [kind |-> "username", value |-> <<url.path[2]>>]
  ELSE IF Len(url.path) = 2 /\ url.path[1] = Word("c")
    THEN [kind |-> "custom", value |-> <<url.path[2]>>]
  ELSE IF url.path # <<>>
    THEN [kind |-> "custom", value |-> <<url.path[1]>>]
  ELSE [kind |-> "guess", value |-> url.path]

\* extract_from_url: (kind, value); value is a sequence of segments.
extract_from_url(url) ==
  IF ~url.scheme /\ url.path # <<>> /\ url.path[1].pre = "@"
    THEN [kind |-> "handle", value |-> url.path]
  ELSE IF MatchChannel(url.path)
    THEN [kind |-> "channel_id", value |-> <<url.path[2]>>]
  ELSE IF url.path # <<>> /\ url.path[1].pre = "@"
    THEN [kind |-> "handle", value |-> <<url.path[1]>>]
  ELSE IF Len(url.path) = 2 /\ url.path[1] = Word("user")
    THEN [kind |-> "username", value |-> <<url.path[2]>>]
  ELSE IF Len(url.path) = 2 /\ url.path[1] = Word("c")
    THEN [kind |-> "custom", value |-> <<url.path[2]>>]
  ELSE IF url.path # <<>>
    THEN [kind |-> "custom", value |-> <<url.path[1]>>]
  ELSE IF url.channel # NoSeg /\ url.channel.pre = "UC"
    THEN [kind |-> "channel_id", value |-> <<url.channel>>]
  ELSE [kind |-> "guess", value |-> url.path]

\* The request resolve_channel_id makes for a kind (lines 135-148).
lookup_strategy(kind) ==
  IF kind = "channel_id" THEN "none"
  ELSE IF kind = "handle" THEN "channels.list(forHandle)"
  ELSE IF kind = "username" THEN "channels.list(forUsername)"
  ELSE "search.list(q)"

\* The channel references a run may be given.
RefUC1   == Url(<<Word("channel"), UC1>>)
RefH     == Bare(<<At("h")>>)
RefUser  == Url(<<Word("user"), Word("u")>>)
RefC     == Url(<<Word("c"), Word("x")>>)
RefUC4   == Url(<<Word("channel"), UC4>>)
RefQ     == UrlQuery(UC5)
RunRefs  == { RefUC1, RefH, RefUser, RefC, RefUC4, RefQ }

\* References of channels that have no profile: a handle, a legacy username
\* nobody holds, an id in the query string and a bare id string.
RefG     == Bare(<<At("g")>>)
RefBare  == Bare(<<UC5>>)
ResolveRefs == { RefG, RefUser, RefQ, RefBare }

\* ------------------------------------------------------------------ the remote fixture
\* channels.list(part="id", forHandle=..) / (forUsername=..) and
\* search.list(q=.., type="channel"): the items of the answer.
RemoteLookup(kind, value) ==
  IF kind = "handle" /\ value = <<At("h")>> THEN <<UC2>>
  ELSE IF kind = "handle" /\ value = <<At("g")>> THEN <<UC5>>
  ELSE IF kind \in {"custom", "guess"} /\ value = <<UC5>> THEN <<UC5>>
  ELSE IF kind = "username" THEN <<>>
  ELSE IF kind \in {"custom", "guess"} /\ value = <<Word("x")>> THEN <<UC3, UC1>>
  ELSE <<>>

\* channels.list(part="snippet,statistics", id=..): the items of the answer.
RemoteChannel(chid) ==
  IF chid = UC1 THEN << [title |-> "A", hiddenSubscriberCount |-> FALSE, subscriberCount |-> 100] >>
  ELSE IF chid = UC2 THEN << [title |-> "B", hiddenSubscriberCount |-> TRUE, subscriberCount |-> 0] >>
  ELSE IF chid = UC3 THEN << [title |-> "C", hiddenSubscriberCount |-> FALSE, subscriberCount |-> 0] >>
  ELSE IF chid = UC4 THEN << [title |-> "D", hiddenSubscriberCount |-> FALSE, subscriberCount |-> 7] >>
  ELSE <<>>

\* search.list(channelId=.., type="video", pageToken=..): the page a token
\* names (NoTok names page 1, token t names page t+1... see TokenPage), its
\* items (each carries id.videoId) and the cursor of the next page.
TokenPage(tok) == IF tok = NoTok THEN 1 ELSE tok
SearchLast(chid) ==                     \* number of pages; 0: the listing never ends
  IF chid = UC1 THEN 2 ELSE IF chid = UC2 THEN 0
  ELSE IF chid = UC3 THEN 1 ELSE max_pages
SearchItems(chid, p) ==
  IF chid = UC1 THEN (IF p % 2 = 1 THEN <<[videoId |-> 100 + 10 * p + 1],
                                          [videoId |-> 100 + 10 * p + 2]>>
                                   ELSE <<[videoId |-> 100 + 10 * p + 1]>>)
  ELSE IF chid = UC2 THEN <<[videoId |-> 200 + p]>>
  ELSE IF chid = UC3 THEN <<[videoId |-> 303], [videoId |-> 304]>>
  ELSE <<>>
RemoteSearch(chid, tok) ==
  LET p == TokenPage(tok)
  IN [items |-> SearchItems(chid, p),
      nextPageToken |-> IF p = SearchLast(chid) THEN NoTok ELSE p + 1]

\* videos.list(part="statistics", id=..): one item per id that still exists;
\* viewCount / commentCount are absent (Blank) on some items.
VideoExists(v) == v % 10 # 3
RemoteStatistics(v) ==
  [viewCount    |-> IF v % 2 = 0 THEN Blank ELSE Some(v % 7),
   commentCount |-> IF v % 3 = 0 THEN Blank ELSE Some(v % 5)]
RemoteVideosStats(batch) ==
  [i \in 1..Len(SelectSeq(batch, VideoExists)) |->
     RemoteStatistics(SelectSeq(batch, VideoExists)[i])]

\* playlistItems.list(playlistId=.., pageToken=..): contentDetails.videoId of
\* each item (0: the item carries none).
members_only_playlist_id(chid) == [chid EXCEPT !.pre = "UUMO"]
PlaylistLast(plid) ==
  IF plid.body = "1" THEN 2 ELSE IF plid.body = "4" THEN 0 ELSE 1
PlaylistItems(plid, p) ==
  IF plid.body = "1"
    THEN (IF p = 1 THEN <<[videoId |-> 501], [videoId |-> 502], [videoId |-> 501]>>
                   ELSE <<[videoId |-> 0], [videoId |-> 503]>>)
  ELSE IF plid.body = "4" THEN <<[videoId |-> 540 + p]>>
  ELSE IF plid.body = "3" THEN <<[videoId |-> 0]>>
  ELSE <<>>
RemotePlaylist(plid, tok) ==
  LET p == TokenPage(tok)
  IN [items |-> PlaylistItems(plid, p),
      nextPageToken |-> IF p = PlaylistLast(plid) THEN NoTok ELSE p + 1]

\* videos.list(part="snippet,statistics,status,contentDetails", id=..):
\* snippet.publishedAt as an instant in days (Blank: absent) and the
\* likeCount / commentCount statistics.
Now == 100
RemoteDetail(v) ==
  IF v = 501 THEN [publishedAt |-> Some(Now - 10), likeCount |-> Some(4), commentCount |-> Some(2)]
  ELSE IF v = 502 THEN [publishedAt |-> Some(Now - 40), likeCount |-> Blank, commentCount |-> Some(6)]
  ELSE IF v = 503 THEN [publishedAt |-> Some(Now - 70), likeCount |-> Some(9), commentCount |-> Some(1)]
  ELSE [publishedAt |-> Some(Now - 30), likeCount |-> Some(v % 4), commentCount |-> Blank]
RemoteVideosDetails(batch) == [i \in 1..Len(batch) |-> RemoteDetail(batch[i])]

\* ------------------------------------------------------------------ pure helpers
Min(a, b) == IF a < b THEN a ELSE b

chunked_drop_tail(seq, n) ==
  [i \in 1..(Len(seq) \div n) |-> SubSeq(seq, n * (i - 1) + 1, n * i)]

\* chunked(seq, n): the list of the slices seq[i:i+n], i = 0, n, 2n, ...
chunked(seq, n) ==
  [i \in 1..((Len(seq) + n - 1) \div n) |->
     SubSeq(seq, n * (i - 1) + 1, Min(n * i, Len(seq)))]

\* A float as the exact quotient num/den.
Zero == [num |-> 0, den |-> 1]

\* mean_or_zero (analytics.py) and mean (test.py)
mean_or_zero(nums) ==
  IF nums # <<>> THEN [num |-> SumSeq(nums), den |-> Len(nums)] ELSE Zero
mean(values) ==
  IF values # <<>> THEN [num |-> SumSeq(values), den |-> Len(values)] ELSE Zero

\* f"{x:.2f}": x rounded to hundredths (no quotient of the fixture is a tie).
Fmt2(x) == (200 * x.num + x.den) \div (2 * x.den)

within_months_open_start(pub, now, months) ==
  LET start == now - 30 * months
  IN start < pub /\ pub <= now

\* within_months(pub_jst, now, months); instants are counted in days.
within_months(pub, now, months) ==
  LET start == now - 30 * months
  IN start <= pub /\ pub <= now

\* safe_int(d, key): Blank (None) when the key is absent or int() raises.
safe_int(d, key) == IF Len(d[key]) = 1 THEN d[key] ELSE Blank

\* Values present (not Blank) among cells, in order.
RECURSIVE Present(_)
Present(cells) ==
  IF cells = <<>> THEN <<>>
  ELSE (IF Head(cells) = Blank THEN <<>> ELSE <<Head(cells)[1]>>) \o Present(Tail(cells))

InWindow_tightest(videos, months) ==
  SelectSeq(videos, LAMBDA v : v.publishedAt # Blank
                               /\ within_months(v.publishedAt[1], Now, months)
                               /\ ~within_months(v.publishedAt[1], Now, months - 1))

\* The loop of members_averages over the fetched videos (lines 282-310).
InWindow(videos, months) ==
  SelectSeq(videos, LAMBDA v : v.publishedAt # Blank
                               /\ within_months(v.publishedAt[1], Now, months))
Field_zero_fill(videos, key) ==
  [i \in 1..Len(videos) |->
     IF safe_int(videos[i], key) = Blank THEN 0 ELSE safe_int(videos[i], key)[1]]

Field(videos, key) == Present([i \in 1..Len(videos) |-> safe_int(videos[i], key)])

\* The counters and lists the loop leaves behind (lines 282-305).
accumulate(videos) ==
  [count_1m |-> Len(InWindow(videos, 1)),
   likes_1m |-> Field(InWindow(videos, 1), "likeCount"),
   comms_1m |-> Field(InWindow(videos, 1), "commentCount"),
   count_2m |-> Len(InWindow(videos, 2)),
   likes_2m |-> Field(InWindow(videos, 2), "likeCount"),
   comms_2m |-> Field(InWindow(videos, 2), "commentCount")]

\* The tuple members_averages returns (lines 307-310).
aggregate(videos) ==
  LET a == accumulate(videos)
  IN [count_1m |-> a.count_1m,
      avg_like_1m |-> mean_or_zero(a.likes_1m),
      avg_comm_1m |-> mean_or_zero(a.comms_1m),
      count_2m |-> a.count_2m,
      avg_like_2m |-> mean_or_zero(a.likes_2m),
      avg_comm_2m |-> mean_or_zero(a.comms_2m)]

\* within_period(published_jst, jst_now, months) of test.py
within_period(pub, now, months) ==
  LET start == now - 30 * months
  IN pub <= now /\ pub >= start

TInWindow(videos, months) ==
  SelectSeq(videos, LAMBDA v : v.publishedAt # Blank
                               /\ within_period(v.publishedAt[1], Now, months))

\* The lists the loop of test.py main leaves behind (lines 137-164).
t_accumulate(videos) ==
  [likes_1m |-> Field(TInWindow(videos, 1), "likeCount"),
   comms_1m |-> Field(TInWindow(videos, 1), "commentCount"),
   likes_2m |-> Field(TInWindow(videos, 2), "likeCount"),
   comms_2m |-> Field(TInWindow(videos, 2), "commentCount")]

\* The four averages of test.py main (lines 166-169).
t_averages(videos) ==
  LET a == t_accumulate(videos)
  IN [avg_like_1m |-> mean(a.likes_1m), avg_comm_1m |-> mean(a.comms_1m),
      avg_like_2m |-> mean(a.likes_2m), avg_comm_2m |-> mean(a.comms_2m)]

\* The CSV row of test.py main (lines 176-179).
t_row(videos) ==
  LET m == t_averages(videos)
  IN [avg_like_1m    |-> Fmt2(m.avg_like_1m),
      avg_comment_1m |-> Fmt2(m.avg_comm_1m),
      avg_like_2m    |-> Fmt2(m.avg_like_2m),
      avg_comment_2m |-> Fmt2(m.avg_comm_2m)]

\* return 0, 0.0, 0.0, 0, 0.0, 0.0
MembersZero ==
  [count_1m |-> 0, avg_like_1m |-> Zero, avg_comm_1m |-> Zero,
   count_2m |-> 0, avg_like_2m |-> Zero, avg_comm_2m |-> Zero]

\* The de-duplication of playlist video ids in members_averages (lines 273-277).
RECURSIVE dedupe(_, _)
dedupe(items, seen) ==
  IF items = <<>> THEN <<>>
  ELSE LET vid == Head(items).videoId
       IN IF vid # 0 /\ vid \notin seen
            THEN <<vid>> \o dedupe(Tail(items), seen \cup {vid})
            ELSE dedupe(Tail(items), seen)

\* The ids kept from one search page (lines 183-185).
PageVideoIds(items) ==
  LET kept == SelectSeq(items, LAMBDA it : it.videoId # 0)
  IN [i \in 1..Len(kept) |-> kept[i].videoId]

\* The views / comments kept from one statistics answer (lines 197-204).
StatValues(items, key) == Present([i \in 1..Len(items) |-> items[i][key]])

\* The row main builds for one channel (lines 369-382).
MakeRow(url, title, subs, vids, views, comments, m) ==
  [channel_url |-> url,
   channelTitle |-> title,
   subscriberCount |-> subs,
   uploads |-> Len(vids),
   avgViewCount |-> Fmt2(mean_or_zero(views)),
   avgCommentCount |-> Fmt2(mean_or_zero(comments)),
   membersCount_1m |-> m.count_1m,
   membersAvgLike_1m |-> Fmt2(m.avg_like_1m),
   membersAvgComment_1m |-> Fmt2(m.avg_comm_1m),
   membersCount_2m |-> m.count_2m,
   membersAvgLike_2m |-> Fmt2(m.avg_like_2m),
   membersAvgComment_2m |-> Fmt2(m.avg_comm_2m)]

\* The output artifact: whether the file exists and the rows it holds.
NoFile == [exists |-> FALSE, rows |-> <<>>]

\* write_results(rows, path, columns): nothing is written for an empty list.
write_results(rows, f) ==
  IF rows = <<>> THEN f ELSE [exists |-> TRUE, rows |-> rows]

\* A remote answer the fixture fixes to be an error: the members-only
\* playlist of channel 2 does not exist.
RemoteFault(op, arg) ==
  IF op = "playlist" /\ arg.body = "2"
    THEN [status |-> 404, reason |-> "playlistNotFound"]
    ELSE NoErr

\* ------------------------------------------------------------------ state
VARIABLES
  prog,      \* which script runs: "analytics" or "test"
  rotator,   \* the ApiKeyRotator: keys, idx, client
  urls,      \* the channel list read from INPUT_CSV
  ui,        \* how many urls the for loop of main has taken
  pc,        \* where the run is
  cache,     \* _chid_cache
  results,   \* the rows appended so far
  file,      \* the output artifact
  loc,       \* the locals of the channel being processed
  wq,        \* observation of the current / latest with_quota_rotation call
  pg,        \* observation of the current / latest paginated collection
  exh,       \* observation of the first quota exhaustion of the run
  twin,      \* comparison runs: which run is under way and the first run's output
  rt,        \* observation of the retry loop of fetch_videos for the current batch
  bf,        \* observation of the current / latest batch fetch
  rs,        \* observation of the channel in progress and of its resolve_channel_id call
  agg        \* the aggregation loops applied to a list of videos on their own

vars == <<prog, rotator, urls, ui, pc, cache, results, file, loc, wq, pg, exh, twin, rt,
          bf, rs, agg>>

Loc0 ==
  [url |-> Bare(<<>>), kind |-> "", value |-> <<>>, chid |-> NoSeg,
   title |-> "", subs |-> Blank, token |-> NoTok, pages |-> 0, ids |-> <<>>,
   bi |-> 0, views |-> <<>>, comments |-> <<>>, plid |-> NoSeg,
   pl_items |-> <<>>, video_ids |-> <<>>, videos |-> <<>>, retries |-> 0,
   strategy |-> ""]

Wq0 ==
  [open |-> FALSE, tries |-> 0, used |-> <<>>, gone |-> <<>>, idx0 |-> 0,
   exc |-> NoErr, err |-> NoErr, pre |-> RotatorInit(<<1>>), called |-> FALSE, ret |-> FALSE,
   stage |-> "", reqs |-> <<>>]

Pg0 ==
  [kind |-> "", arg |-> NoSeg, toks |-> <<>>, delays |-> 0, att |-> 0,
   rej |-> 0, open |-> FALSE, raised |-> FALSE, ret |-> <<>>]
PgNew(kind, arg) == [Pg0 EXCEPT !.kind = kind, !.arg = arg, !.open = TRUE]

Exh0 == [happened |-> FALSE, ui |-> 0, nres |-> 0, after |-> FALSE]

Twin0 == [run |-> 0, out1 |-> NoFile, n1 |-> 0, idx1 |-> 0]
Rt0 == [batch |-> 0, attempts |-> 0, waits |-> <<>>, gaveUp |-> FALSE, added |-> 0,
        quota |-> FALSE]

\* A batch fetch: which fetcher, the id list it was given, the chunk of every
\* request that came to an end and whether it was answered, whether the
\* fetch has ended, whether by an exception, and what it returned.
NoOut == [items |-> <<>>, views |-> <<>>, comments |-> <<>>]
Bf0 ==
  [kind |-> "", ids |-> <<>>, reqs |-> <<>>, ok |-> <<>>,
   ended |-> FALSE, raised |-> FALSE, out |-> NoOut]
BfNew(kind, ids) == [Bf0 EXCEPT !.kind = kind, !.ids = ids]

\* A channel of the loop of main: its reference, the resolve_channel_id call
\* (remote attempts made, result, the error caught, the pool before and
\* after), the rows gathered before it, and what the first call on every
\* reference returned.
Rs0 ==
  [url |-> Bare(<<>>), done |-> FALSE, again |-> FALSE, calls |-> 0,
   ret |-> NoSeg, err |-> NoErr, pre |-> RotatorInit(<<1>>),
   post |-> RotatorInit(<<1>>), nres |-> 0, first |-> <<>>]

Agg0 ==
  [videos |-> <<>>, m_acc |-> accumulate(<<>>), m_out |-> aggregate(<<>>),
   t_acc |-> t_accumulate(<<>>), t_out |-> t_averages(<<>>)]

UrlLists == UNION { [1..n -> RunRefs] : n \in 0..MaxUrls }

InitAnalytics ==
  /\ prog = "analytics"
  /\ \E ks \in Pools : rotator = RotatorInit(ks)
  /\ urls \in UrlLists
  /\ ui = 0
  /\ pc = "loop"
  /\ cache = << >>
  /\ results = << >>
  /\ file = NoFile
  /\ loc = Loc0
  /\ wq = Wq0
  /\ pg = Pg0
  /\ exh = Exh0
  /\ twin = Twin0
  /\ rt = Rt0
  /\ bf = Bf0
  /\ rs = Rs0
  /\ agg = Agg0

\* ------------------------------------------------------------------ requests
RemotePcs == {"lookup", "info", "list", "stats", "playlist", "details"}

Batches == IF pc = "stats" THEN chunked(loc.ids, BatchSize)
           ELSE chunked(loc.video_ids, BatchSize)

make_request_from_start(yt) ==
  [key |-> yt.developerKey, op |-> pc,
   token |-> IF pc \in {"list", "playlist"} /\ ~wq.open THEN loc.token ELSE NoTok,
   ids |-> IF pc \in {"stats", "details"}
             THEN (IF wq.open THEN Batches[1] ELSE Batches[loc.bi])
             ELSE <<>>]

\* The request the lambda given to with_quota_rotation builds on a client:
\* the operation, the cursor (pageToken) or the chunk (id) its caller's
\* locals hold when it is called, and the client's key.
make_request(yt) ==
  [key |-> yt.developerKey, op |-> pc,
   token |-> IF pc \in {"list", "playlist"} THEN loc.token ELSE NoTok,
   ids |-> IF pc \in {"stats", "details"} THEN Batches[loc.bi] ELSE <<>>]

\* ------------------------------------------------------------------ observation
\* The observation after an attempt that was answered / that failed with e.
WqBase == IF wq.open THEN wq ELSE [Wq0 EXCEPT !.idx0 = rotator.idx, !.gone = wq.gone]
WqAnswered ==
  [WqBase EXCEPT !.open = FALSE, !.tries = @ + 1,
                 !.used = Append(@, rotator.client.developerKey),
                 !.exc = NoErr, !.err = NoErr, !.pre = rotator,
                 !.called = FALSE, !.ret = FALSE, !.stage = pc,
                 !.reqs = Append(@, make_request(rotator.client))]
WqFailed(e, h) ==
  [WqBase EXCEPT !.open = ~h.raise, !.tries = @ + 1,
                 !.used = Append(@, rotator.client.developerKey),
                 !.gone = IF h.rot.client # rotator.client
                            THEN Append(@, rotator.client.developerKey) ELSE @,
                 !.exc = h.exc, !.err = e, !.pre = rotator,
                 !.called = h.called, !.ret = h.ret, !.stage = pc,
                 !.reqs = Append(@, make_request(rotator.client))]

\* The batch-fetch observation after a chunk was answered, after a chunk was
\* given up, after a chunk's request raised out of the fetcher, and after the
\* fetcher returned.
BfOk(chunk) == [bf EXCEPT !.reqs = Append(@, chunk), !.ok = Append(@, TRUE)]
BfGaveUp(chunk) == [bf EXCEPT !.reqs = Append(@, chunk), !.ok = Append(@, FALSE)]
BfRaised(chunk) ==
  [bf EXCEPT !.reqs = Append(@, chunk), !.ok = Append(@, FALSE),
             !.ended = TRUE, !.raised = TRUE]
BfReturned(out) == [bf EXCEPT !.ended = TRUE, !.out = out]

\* The channel observation when resolve_channel_id returns chid.
RsReturn(chid, rot) ==
  [rs EXCEPT !.done = TRUE, !.ret = chid, !.post = rot,
             !.first = IF rs.url \in DOMAIN @ THEN @
                       ELSE [u \in DOMAIN @ \cup {rs.url} |->
                               IF u = rs.url THEN chid ELSE @[u]]]
\* The observation of the resolve_channel_id call lasts until the next
\* remote call of main, which keeps only the channel's reference and rows.
RsClear == [Rs0 EXCEPT !.url = rs.url, !.nres = rs.nres, !.first = rs.first]
RsAttempt == IF pc = "lookup" THEN [rs EXCEPT !.calls = @ + 1] ELSE RsClear

ExhAttempt == IF exh.happened THEN [exh EXCEPT !.after = TRUE] ELSE exh
ExhFailed(h) ==
  IF exh.happened THEN [exh EXCEPT !.after = TRUE]
  ELSE IF h.raise /\ is_quota_error(h.exc)
    THEN [happened |-> TRUE, ui |-> ui, nres |-> Len(results), after |-> FALSE]
  ELSE exh

\* ------------------------------------------------------------------ the remote call in flight
\* The run is about to execute a request through with_quota_rotation.
AtRemoteCall ==
  /\ prog = "analytics"
  /\ pc \in RemotePcs
  /\ pc \in {"stats", "details"} => loc.bi <= Len(Batches)
  /\ pc = "playlist" => Len(pg.toks) < MaxPlaylistPages

CurFault == RemoteFault(pc, loc.plid)

\* The failures the remote may answer the request in flight with: the one
\* the fixture fixes, or any HttpError; in a comparison run only quota
\* rejections of a key that is not the last one.
CanFail(e) ==
  \/ e = CurFault
  \/ IF twin.run = 0 THEN TRUE
     ELSE e.reason = "quotaExceeded" /\ rotator.idx + 1 < Len(rotator.keys)

Answered == AtRemoteCall /\ CurFault = NoErr

PgFailed(e, h) ==
  IF pc \in {"list", "playlist"}
    THEN [pg EXCEPT !.att = @ + 1,
                    !.rej = @ + (IF h.called THEN 1 ELSE 0),
                    !.open = ~h.raise, !.raised = h.raise]
    ELSE pg

CachePut_single(url, chid) == [u \in {url} |-> chid]

CachePut_skip_none(url, chid) ==
  IF chid = NoSeg THEN cache
  ELSE [u \in DOMAIN cache \cup {url} |-> IF u = url THEN chid ELSE cache[u]]

\* _chid_cache[url] = chid
CachePut(url, chid) ==
  [u \in DOMAIN cache \cup {url} |-> IF u = url THEN chid ELSE cache[u]]

\* results.append(row); write_results(results, ...) and on to the next url.
AppendRow(m) ==
  LET row == MakeRow(loc.url, loc.title, loc.subs, loc.ids, loc.views, loc.comments, m)
  IN /\ results' = Append(results, row)
     /\ file' = write_results(Append(results, row), file)
     /\ pc' = "loop"

\* ------------------------------------------------------------------ main (analytics.py)
\* for url in urls: the next url is taken (the observations of calls and
\* collections start afresh with each channel).
LoopNext ==
  /\ prog = "analytics" /\ pc = "loop" /\ ui < Len(urls)
  /\ ui' = ui + 1
  /\ loc' = [Loc0 EXCEPT !.url = urls[ui + 1]]
  /\ pc' = "resolve"
  /\ wq' = [Wq0 EXCEPT !.gone = wq.gone]
  /\ pg' = Pg0
  /\ bf' = Bf0
  /\ rs' = [Rs0 EXCEPT !.url = urls[ui + 1],
                        !.again = urls[ui + 1] \in DOMAIN rs.first,
                        !.pre = rotator, !.post = rotator,
                        !.nres = Len(results), !.first = rs.first]
  /\ UNCHANGED <<prog, rotator, urls, cache, results, file, exh, twin, rt, agg>>

\* The loop is over: the final write_results.
Finish ==
  /\ prog = "analytics" /\ pc = "loop" /\ ui = Len(urls)
  /\ file' = write_results(results, file)
  /\ pc' = "done"
  /\ UNCHANGED <<prog, rotator, urls, ui, cache, results, loc, wq, pg, exh, twin, rt, bf, rs, agg>>

\* resolve_channel_id: the reference is in the cache.
ResolveCached ==
  /\ prog = "analytics" /\ pc = "resolve" /\ loc.url \in DOMAIN cache
  /\ loc' = [loc EXCEPT !.chid = cache[loc.url]]
  /\ pc' = IF cache[loc.url] # NoSeg THEN "info" ELSE "loop"
  /\ rs' = RsReturn(cache[loc.url], rotator)
  /\ UNCHANGED <<prog, rotator, urls, ui, cache, results, file, wq, pg, exh, twin, rt, bf, agg>>

\* resolve_channel_id: kind == "channel_id", no lookup.
ResolveDirect ==
  /\ prog = "analytics" /\ pc = "resolve" /\ loc.url \notin DOMAIN cache
  /\ LET x == extract_from_url(loc.url)
     IN /\ x.kind = "channel_id"
        /\ loc' = [loc EXCEPT !.kind = x.kind, !.value = x.value, !.chid = x.value[1],
                              !.strategy = lookup_strategy(x.kind)]
        /\ cache' = CachePut(loc.url, x.value[1])
        /\ pc' = IF x.value[1] # NoSeg THEN "info" ELSE "loop"
        /\ rs' = RsReturn(x.value[1], rotator)
  /\ UNCHANGED <<prog, rotator, urls, ui, results, file, wq, pg, exh, twin, rt, bf, agg>>

\* resolve_channel_id: any other kind needs a remote lookup.
ResolveClassify ==
  /\ prog = "analytics" /\ pc = "resolve" /\ loc.url \notin DOMAIN cache
  /\ LET x == extract_from_url(loc.url)
     IN /\ x.kind # "channel_id"
        /\ loc' = [loc EXCEPT !.kind = x.kind, !.value = x.value,
                              !.strategy = lookup_strategy(x.kind)]
  /\ pc' = "lookup"
  /\ UNCHANGED <<prog, rotator, urls, ui, cache, results, file, wq, pg, exh, twin, rt, bf, rs, agg>>

\* resolve_channel_id: the lookup is answered.
LookupOk ==
  /\ Answered /\ pc = "lookup"
  /\ LET items == RemoteLookup(loc.kind, loc.value)
         chid == IF items # <<>> THEN items[1] ELSE NoSeg
     IN /\ loc' = [loc EXCEPT !.chid = chid]
        /\ cache' = CachePut(loc.url, chid)
        /\ pc' = IF chid # NoSeg THEN "info" ELSE "loop"
        /\ rs' = [RsReturn(chid, rotator) EXCEPT !.calls = @ + 1]
  /\ wq' = WqAnswered /\ exh' = ExhAttempt
  /\ UNCHANGED <<prog, rotator, urls, ui, results, file, pg, twin, rt, bf, agg>>

\* get_channel_info is answered; main skips the channel without a title.
InfoOk ==
  /\ Answered /\ pc = "info"
  /\ LET items == RemoteChannel(loc.chid)
     IN IF items = <<>>
          THEN /\ pc' = "loop" /\ loc' = loc /\ pg' = pg
          ELSE /\ loc' = [loc EXCEPT
                            !.title = items[1].title,
                            !.subs = IF items[1].hiddenSubscriberCount THEN Blank
                                     ELSE Some(items[1].subscriberCount),
                            !.token = NoTok, !.pages = 0, !.ids = <<>>]
               /\ pc' = IF items[1].title # "" THEN "list" ELSE "loop"
               /\ pg' = IF items[1].title # "" THEN PgNew("search", loc.chid) ELSE pg
  /\ wq' = WqAnswered /\ exh' = ExhAttempt /\ rs' = RsClear
  /\ UNCHANGED <<prog, rotator, urls, ui, cache, results, file, twin, rt, bf, agg>>

list_page_no_cap(res) ==
  LET ids == loc.ids \o PageVideoIds(res.items)
      more == res.nextPageToken # NoTok
  IN [loc |-> [loc EXCEPT !.ids = ids, !.token = res.nextPageToken,
                          !.pages = @ + 1, !.bi = IF more THEN @ ELSE 1],
      more |-> more]

list_page_first_token(res) ==
  LET ids == loc.ids \o PageVideoIds(res.items)
      pages == loc.pages + 1
      more == ~(res.nextPageToken = NoTok \/ pages >= max_pages)
  IN [loc |-> [loc EXCEPT !.ids = ids, !.token = NoTok,
                          !.pages = pages, !.bi = IF more THEN @ ELSE 1],
      more |-> more]

\* One iteration of the loop of list_video_ids_in_period after an answer
\* (lines 183-190): the locals afterwards and whether the loop goes on.
list_page(res) ==
  LET ids == loc.ids \o PageVideoIds(res.items)
      pages == loc.pages + 1
      more == ~(res.nextPageToken = NoTok \/ pages >= max_pages)
  IN [loc |-> [loc EXCEPT !.ids = ids, !.token = res.nextPageToken,
                          !.pages = pages, !.bi = IF more THEN @ ELSE 1],
      more |-> more]

\* list_video_ids_in_period: one page is answered.
ListPageOk ==
  /\ Answered /\ pc = "list"
  /\ LET req == make_request(rotator.client)
         r == list_page(RemoteSearch(loc.chid, req.token))
     IN /\ loc' = r.loc
        /\ pc' = IF r.more THEN "list" ELSE "stats"
        /\ pg' = [pg EXCEPT !.toks = Append(@, req.token), !.att = @ + 1,
                            !.delays = @ + (IF r.more THEN 1 ELSE 0),
                            !.open = r.more, !.ret = r.loc.ids]
        /\ bf' = IF r.more THEN bf ELSE BfNew("stats", r.loc.ids)
  /\ wq' = WqAnswered /\ exh' = ExhAttempt
  /\ UNCHANGED <<prog, rotator, urls, ui, cache, results, file, twin, rt, rs, agg>>

\* fetch_video_stats: one batch is answered.
StatsBatchOk ==
  /\ Answered /\ pc = "stats"
  /\ LET req == make_request(rotator.client)
         items == RemoteVideosStats(req.ids)
     IN /\ loc' = [loc EXCEPT !.views = @ \o StatValues(items, "viewCount"),
                              !.comments = @ \o StatValues(items, "commentCount"),
                              !.bi = @ + 1]
        /\ bf' = BfOk(req.ids)
  /\ wq' = WqAnswered /\ exh' = ExhAttempt
  /\ UNCHANGED <<prog, rotator, urls, ui, pc, cache, results, file, pg, twin, rt, rs, agg>>

\* fetch_video_stats returns; members_averages starts with the playlist.
StatsReturn ==
  /\ prog = "analytics" /\ pc = "stats" /\ loc.bi > Len(Batches)
  /\ loc' = [loc EXCEPT !.plid = members_only_playlist_id(loc.chid),
                        !.token = NoTok, !.pl_items = <<>>]
  /\ pg' = PgNew("playlist", members_only_playlist_id(loc.chid))
  /\ pc' = "playlist"
  /\ bf' = BfReturned([NoOut EXCEPT !.views = loc.views, !.comments = loc.comments])
  /\ UNCHANGED <<prog, rotator, urls, ui, cache, results, file, wq, exh, twin, rt, rs, agg>>

playlist_page_reversed(res) ==
  [loc |-> [loc EXCEPT !.pl_items = res.items \o @, !.token = res.nextPageToken],
   more |-> res.nextPageToken # NoTok]

\* One iteration of the loop of fetch_playlist_items after an answer
\* (lines 227-230; test.py lines 47-51).
playlist_page(res) ==
  [loc |-> [loc EXCEPT !.pl_items = @ \o res.items, !.token = res.nextPageToken],
   more |-> res.nextPageToken # NoTok]

\* fetch_playlist_items: one page is answered; after the last page
\* members_averages returns zeros for an empty playlist (and main appends
\* the row) or goes on to fetch_videos_details.
PlaylistPageOk ==
  /\ Answered /\ pc = "playlist"
  /\ LET req == make_request(rotator.client)
         r == playlist_page(RemotePlaylist(loc.plid, req.token))
     IN /\ pg' = [pg EXCEPT !.toks = Append(@, req.token), !.att = @ + 1,
                            !.delays = @ + (IF r.more THEN 1 ELSE 0),
                            !.open = r.more, !.ret = r.loc.pl_items]
        /\ IF r.more
             THEN /\ loc' = r.loc /\ pc' = "playlist"
                  /\ UNCHANGED <<results, file, bf>>
           ELSE IF r.loc.pl_items = <<>>
             THEN /\ loc' = r.loc
                  /\ AppendRow(MembersZero)
                  /\ UNCHANGED bf
           ELSE /\ loc' = [r.loc EXCEPT !.video_ids = dedupe(r.loc.pl_items, {}),
                                        !.bi = 1, !.videos = <<>>]
                /\ pc' = "details"
                /\ bf' = BfNew("details", dedupe(r.loc.pl_items, {}))
                /\ UNCHANGED <<results, file>>
  /\ wq' = WqAnswered /\ exh' = ExhAttempt
  /\ UNCHANGED <<prog, rotator, urls, ui, cache, twin, rt, rs, agg>>

\* fetch_videos_details: one batch is answered.
DetailsBatchOk ==
  /\ Answered /\ pc = "details"
  /\ LET req == make_request(rotator.client)
     IN /\ loc' = [loc EXCEPT !.videos = @ \o RemoteVideosDetails(req.ids),
                              !.bi = @ + 1]
        /\ bf' = BfOk(req.ids)
  /\ wq' = WqAnswered /\ exh' = ExhAttempt
  /\ UNCHANGED <<prog, rotator, urls, ui, pc, cache, results, file, pg, twin, rt, rs, agg>>

\* fetch_videos_details returns; members_averages aggregates; main appends.
DetailsReturn ==
  /\ prog = "analytics" /\ pc = "details" /\ loc.bi > Len(Batches)
  /\ AppendRow(aggregate(loc.videos))
  /\ bf' = BfReturned([NoOut EXCEPT !.items = loc.videos])
  /\ UNCHANGED <<prog, rotator, urls, ui, cache, loc, wq, pg, exh, twin, rt, rs, agg>>

\* with_quota_rotation: the attempt is quota-rejected, the pool rotates and
\* the same request is made again.
AttemptRetried ==
  /\ AtRemoteCall
  /\ \E e \in HttpErrors :
       /\ CanFail(e)
       /\ LET h == with_quota_rotation_except(rotator, e)
          IN /\ ~h.raise
             /\ rotator' = h.rot
             /\ wq' = WqFailed(e, h) /\ pg' = PgFailed(e, h) /\ exh' = ExhFailed(h)
  /\ rs' = RsAttempt
  /\ UNCHANGED <<prog, urls, ui, pc, cache, results, file, loc, twin, rt, bf, agg>>

\* resolve_channel_id: except HttpError around the lookup; None is cached.
ResolveExcept ==
  /\ AtRemoteCall /\ pc = "lookup"
  /\ \E e \in HttpErrors :
       /\ CanFail(e)
       /\ LET h == with_quota_rotation_except(rotator, e)
          IN /\ h.raise
             /\ rotator' = h.rot
             /\ wq' = WqFailed(e, h) /\ pg' = PgFailed(e, h) /\ exh' = ExhFailed(h)
             /\ rs' = [RsReturn(NoSeg, h.rot) EXCEPT !.calls = @ + 1, !.err = e]
  /\ loc' = [loc EXCEPT !.chid = NoSeg]
  /\ cache' = CachePut(loc.url, NoSeg)
  /\ pc' = "loop"
  /\ UNCHANGED <<prog, urls, ui, results, file, twin, rt, bf, agg>>

\* members_averages: except HttpError; zeros are returned and main appends.
MembersExcept ==
  /\ AtRemoteCall /\ pc \in {"playlist", "details"}
  /\ \E e \in HttpErrors :
       /\ CanFail(e)
       /\ LET h == with_quota_rotation_except(rotator, e)
          IN /\ h.raise
             /\ rotator' = h.rot
             /\ wq' = WqFailed(e, h) /\ pg' = PgFailed(e, h) /\ exh' = ExhFailed(h)
  /\ AppendRow(MembersZero)
  /\ bf' = IF pc = "details" THEN BfRaised(Batches[loc.bi]) ELSE bf
  /\ UNCHANGED <<prog, urls, ui, cache, loc, twin, rt, rs, agg>>

\* main: except HttpError with a quota error: partial results, return.
MainExceptQuota ==
  /\ AtRemoteCall /\ pc \in {"info", "list", "stats"}
  /\ \E e \in HttpErrors :
       /\ CanFail(e)
       /\ LET h == with_quota_rotation_except(rotator, e)
          IN /\ h.raise /\ is_quota_error(h.exc)
             /\ rotator' = h.rot
             /\ wq' = WqFailed(e, h) /\ pg' = PgFailed(e, h) /\ exh' = ExhFailed(h)
  /\ file' = write_results(results, file)
  /\ pc' = "done"
  /\ bf' = IF pc = "stats" THEN BfRaised(Batches[loc.bi]) ELSE bf
  /\ rs' = RsClear
  /\ UNCHANGED <<prog, urls, ui, cache, results, loc, twin, rt, agg>>

\* main: except HttpError with any other error: the channel is skipped.
MainExceptOther ==
  /\ AtRemoteCall /\ pc \in {"info", "list", "stats"}
  /\ \E e \in HttpErrors :
       /\ CanFail(e)
       /\ LET h == with_quota_rotation_except(rotator, e)
          IN /\ h.raise /\ ~is_quota_error(h.exc)
             /\ rotator' = h.rot
             /\ wq' = WqFailed(e, h) /\ pg' = PgFailed(e, h) /\ exh' = ExhFailed(h)
  /\ pc' = "loop"
  /\ bf' = IF pc = "stats" THEN BfRaised(Batches[loc.bi]) ELSE bf
  /\ rs' = RsClear
  /\ UNCHANGED <<prog, urls, ui, cache, results, file, loc, twin, rt, agg>>

NextAnalytics ==
  \/ LoopNext \/ Finish
  \/ ResolveCached \/ ResolveDirect \/ ResolveClassify \/ LookupOk
  \/ InfoOk \/ ListPageOk \/ StatsBatchOk \/ StatsReturn
  \/ PlaylistPageOk \/ DetailsBatchOk \/ DetailsReturn
  \/ AttemptRetried \/ ResolveExcept \/ MembersExcept
  \/ MainExceptQuota \/ MainExceptOther

\* ------------------------------------------------------------------ test.py
MAX_RETRIES == 3

RECURSIVE Pow2(_)
Pow2(n) == IF n = 0 THEN 1 ELSE 2 * Pow2(n - 1)

\* wait = (2**retries) * 0.5, counted in half seconds.
backoff_wait(retries) == Pow2(retries)

\* test.py after build_youtube and members_only_playlist_id: CHANNEL_ID is
\* one of the channels of the fixture.
InitTest ==
  /\ prog = "test"
  /\ rotator = RotatorInit(<<1>>)
  /\ urls = << >> /\ ui = 0
  /\ pc = "t_playlist"
  /\ cache = << >> /\ results = << >> /\ file = NoFile
  /\ \E c \in {UC1, UC2, UC3, UC4} :
       loc = [Loc0 EXCEPT !.chid = c, !.plid = members_only_playlist_id(c)]
       /\ pg = PgNew("playlist", members_only_playlist_id(c))
  /\ wq = Wq0 /\ exh = Exh0 /\ twin = Twin0 /\ rt = Rt0
  /\ bf = Bf0 /\ rs = Rs0 /\ agg = Agg0

TBatches == chunked(loc.video_ids, BatchSize)

\* fetch_playlist_items (test.py): one page is answered; main returns at an
\* empty playlist or goes on to fetch_videos.
TPlaylistPageOk ==
  /\ prog = "test" /\ pc = "t_playlist"
  /\ Len(pg.toks) < MaxPlaylistPages
  /\ RemoteFault("playlist", loc.plid) = NoErr
  /\ LET r == playlist_page(RemotePlaylist(loc.plid, loc.token))
     IN /\ pg' = [pg EXCEPT !.toks = Append(@, loc.token), !.att = @ + 1,
                            !.delays = @ + (IF r.more THEN 1 ELSE 0),
                            !.open = r.more, !.ret = r.loc.pl_items]
        /\ IF r.more THEN loc' = r.loc /\ pc' = "t_playlist"
           ELSE IF r.loc.pl_items = <<>> THEN loc' = r.loc /\ pc' = "t_done"
           ELSE /\ loc' = [r.loc EXCEPT !.video_ids = dedupe(r.loc.pl_items, {}),
                                        !.bi = 1, !.videos = <<>>, !.retries = 0]
                /\ pc' = "t_videos"
        /\ bf' = IF ~r.more /\ r.loc.pl_items # <<>>
                   THEN BfNew("videos", dedupe(r.loc.pl_items, {})) ELSE bf
  /\ UNCHANGED <<prog, rotator, urls, ui, cache, results, file, wq, exh, twin, rt, rs, agg>>

\* fetch_playlist_items (test.py): execute() raises; nothing catches it.
TPlaylistRaises ==
  /\ prog = "test" /\ pc = "t_playlist"
  /\ Len(pg.toks) < MaxPlaylistPages
  /\ \E e \in HttpErrors :
       /\ RemoteFault("playlist", loc.plid) \in {NoErr, e}
       /\ pg' = [pg EXCEPT !.att = @ + 1, !.open = FALSE, !.raised = TRUE]
  /\ pc' = "t_crashed"
  /\ UNCHANGED <<prog, rotator, urls, ui, cache, results, file, loc, wq, exh, twin, rt, bf, rs, agg>>

RtBase == IF rt.batch = loc.bi THEN rt ELSE [Rt0 EXCEPT !.batch = loc.bi]

\* fetch_videos: the batch is answered (lines 60-67, 76).
TVideosBatchOk ==
  /\ prog = "test" /\ pc = "t_videos" /\ loc.bi <= Len(TBatches)
  /\ loc' = [loc EXCEPT !.videos = @ \o RemoteVideosDetails(TBatches[loc.bi]),
                        !.bi = @ + 1, !.retries = 0]
  /\ rt' = [RtBase EXCEPT !.attempts = @ + 1, !.added = Len(TBatches[loc.bi])]
  /\ bf' = BfOk(TBatches[loc.bi])
  /\ UNCHANGED <<prog, rotator, urls, ui, pc, cache, results, file, wq, pg, exh, twin, rs, agg>>

fetch_videos_except_no_limit(retries) ==
  [retries |-> retries + 1, giveUp |-> FALSE, wait |-> backoff_wait(retries + 1)]

\* fetch_videos: the except branch (lines 68-75): the new retry count,
\* whether the batch is given up and the wait before the next attempt.
fetch_videos_except(retries) ==
  [retries |-> retries + 1,
   giveUp |-> retries + 1 > MAX_RETRIES,
   wait |-> backoff_wait(retries + 1)]

\* fetch_videos: the attempt raises an HttpError of any kind.
TVideosBatchFails ==
  /\ prog = "test" /\ pc = "t_videos" /\ loc.bi <= Len(TBatches)
  /\ \E e \in HttpErrors :
       LET x == fetch_videos_except(loc.retries)
       IN IF x.giveUp
            THEN /\ loc' = [loc EXCEPT !.bi = @ + 1, !.retries = 0]
                 /\ rt' = [RtBase EXCEPT !.attempts = @ + 1, !.gaveUp = TRUE]
                 /\ bf' = BfGaveUp(TBatches[loc.bi])
            ELSE /\ loc' = [loc EXCEPT !.retries = x.retries]
                 /\ rt' = [RtBase EXCEPT !.attempts = @ + 1,
                                         !.waits = Append(@, x.wait),
                                         !.quota = @ \/ is_quota_error(e)]
                 /\ bf' = bf
  /\ UNCHANGED <<prog, rotator, urls, ui, pc, cache, results, file, wq, pg, exh, twin, rs, agg>>

\* fetch_videos returns; main aggregates and writes the one-row CSV.
TVideosReturn ==
  /\ prog = "test" /\ pc = "t_videos" /\ loc.bi > Len(TBatches)
  /\ file' = [exists |-> TRUE, rows |-> <<t_row(loc.videos)>>]
  /\ pc' = "t_done"
  /\ bf' = BfReturned([NoOut EXCEPT !.items = loc.videos])
  /\ UNCHANGED <<prog, rotator, urls, ui, cache, results, loc, wq, pg, exh, twin, rt, rs, agg>>

NextTest ==
  \/ TPlaylistPageOk \/ TPlaylistRaises
  \/ TVideosBatchOk \/ TVideosBatchFails \/ TVideosReturn

Init == InitAnalytics \/ InitTest
Next == NextAnalytics \/ NextTest
Spec == Init /\ [][Next]_vars

\* ------------------------------------------------------------------ comparison runs
\* Two runs of analytics.py on the same channel list and the same remote
\* data: the first with a pool of several keys of which any but the last may
\* be quota-rejected, the second with a pool holding only that last key.
InitTwin ==
  /\ prog = "analytics"
  /\ \E ks \in Pools : Len(ks) >= 2 /\ rotator = RotatorInit(ks)
  /\ urls \in UrlLists
  /\ ui = 0 /\ pc = "loop" /\ cache = << >> /\ results = << >> /\ file = NoFile
  /\ loc = Loc0 /\ wq = Wq0 /\ pg = Pg0 /\ exh = Exh0 /\ rt = Rt0
  /\ bf = Bf0 /\ rs = Rs0 /\ agg = Agg0
  /\ twin = [Twin0 EXCEPT !.run = 1]

\* The first run is over: its artifact is kept and the second run starts.
TwinRestart ==
  /\ twin.run = 1 /\ pc = "done"
  /\ twin' = [run |-> 2, out1 |-> file, n1 |-> Len(rotator.keys), idx1 |-> rotator.idx]
  /\ rotator' = RotatorInit(<<rotator.keys[Len(rotator.keys)]>>)
  /\ ui' = 0 /\ pc' = "loop" /\ cache' = << >> /\ results' = << >>
  /\ file' = NoFile /\ loc' = Loc0
  /\ wq' = [Wq0 EXCEPT !.pre = wq.pre] /\ pg' = Pg0
  /\ bf' = Bf0 /\ rs' = Rs0
  /\ UNCHANGED <<prog, urls, exh, rt, agg>>

NextTwin ==
  \/ LoopNext \/ Finish
  \/ ResolveCached \/ ResolveDirect \/ ResolveClassify \/ LookupOk
  \/ InfoOk \/ ListPageOk \/ StatsBatchOk \/ StatsReturn
  \/ PlaylistPageOk \/ DetailsBatchOk \/ DetailsReturn
  \/ AttemptRetried \/ MembersExcept
  \/ TwinRestart

SpecTwin == InitTwin /\ [][NextTwin]_vars

\* ------------------------------------------------------------------ runs on channels without a profile
\* Runs of analytics.py on lists of up to MaxRefs references whose channels
\* have no profile: every channel is resolved (or not) and then skipped, so
\* the steps of the run are those of resolve_channel_id and get_channel_info.
InitResolve ==
  /\ prog = "analytics"
  /\ \E ks \in Pools : rotator = RotatorInit(ks)
  /\ urls \in UNION { [1..n -> ResolveRefs] : n \in 0..MaxRefs }
  /\ ui = 0 /\ pc = "loop" /\ cache = << >> /\ results = << >> /\ file = NoFile
  /\ loc = Loc0 /\ wq = Wq0 /\ pg = Pg0 /\ exh = Exh0 /\ twin = Twin0 /\ rt = Rt0
  /\ bf = Bf0 /\ rs = Rs0 /\ agg = Agg0

NextResolve ==
  \/ LoopNext \/ Finish
  \/ ResolveCached \/ ResolveDirect \/ ResolveClassify \/ LookupOk
  \/ InfoOk
  \/ AttemptRetried \/ ResolveExcept
  \/ MainExceptQuota \/ MainExceptOther

SpecResolve == InitResolve /\ [][NextResolve]_vars

\* ------------------------------------------------------------------ classification on its own
\* The references extract_from_url is applied to: with or without
\* scheme://host, a path of up to MaxSegs segments (the words the patterns
\* look for, any other word, a handle, an id and a "UC" word too short for
\* an id) and a channel= parameter that is absent, an id or another word.
ClassSegs ==
  { Word("channel"), Word("user"), Word("c"), Word("x"), At("h"), UC1, Seg("UC", "s", 5) }
ClassRefs ==
  { [scheme |-> sc, path |-> p, channel |-> q] :
      sc \in BOOLEAN,
      p \in UNION { [1..n -> ClassSegs] : n \in 0..MaxSegs },
      q \in { NoSeg, UC5, Word("x") } }

InitClassify ==
  /\ prog = "classify" /\ pc = "classify"
  /\ rotator = RotatorInit(<<1>>)
  /\ urls = << >> /\ ui = 0 /\ cache = << >> /\ results = << >> /\ file = NoFile
  /\ \E u \in ClassRefs : loc = [Loc0 EXCEPT !.url = u]
  /\ wq = Wq0 /\ pg = Pg0 /\ exh = Exh0 /\ twin = Twin0 /\ rt = Rt0
  /\ bf = Bf0 /\ rs = Rs0 /\ agg = Agg0

\* resolve_channel_id, lines 132-148: the reference is classified and the
\* kind selects the request.
Classify ==
  /\ prog = "classify" /\ pc = "classify"
  /\ LET x == extract_from_url(loc.url)
     IN loc' = [loc EXCEPT !.kind = x.kind, !.value = x.value,
                           !.strategy = lookup_strategy(x.kind)]
  /\ pc' = "classified"
  /\ UNCHANGED <<prog, rotator, urls, ui, cache, results, file, wq, pg, exh, twin, rt,
                 bf, rs, agg>>

NextClassify == Classify
SpecClassify == InitClassify /\ [][NextClassify]_vars

\* ------------------------------------------------------------------ aggregation on its own
\* A fetched video as the aggregation loops read it.
Video(pub, like, comm) == [publishedAt |-> pub, likeCount |-> like, commentCount |-> comm]

\* The videos the loops are applied to: published 10, 40 and 70 days ago, on
\* the edges of both windows, right now, in the future, without publishedAt,
\* and with statistics that are absent or cannot be parsed.
AggItems ==
  { Video(Some(Now - 10), Some(4), Some(2)),
    Video(Some(Now - 40), Blank, Some(6)),
    Video(Some(Now - 70), Some(9), Some(1)),
    Video(Some(Now - 30), Some(3), Blank),
    Video(Some(Now - 31), Junk, Some(5)),
    Video(Some(Now - 60), Some(2), Blank),
    Video(Some(Now - 61), Some(5), Some(5)),
    Video(Some(Now), Some(1), Some(0)),
    Video(Some(Now + 1), Some(7), Some(7)),
    Video(Blank, Some(8), Some(8)) }

InitAgg ==
  /\ prog = "aggregate" /\ pc = "agg"
  /\ rotator = RotatorInit(<<1>>)
  /\ urls = << >> /\ ui = 0 /\ cache = << >> /\ results = << >> /\ file = NoFile
  /\ loc = Loc0 /\ wq = Wq0 /\ pg = Pg0 /\ exh = Exh0 /\ twin = Twin0 /\ rt = Rt0
  /\ bf = Bf0 /\ rs = Rs0
  /\ \E vs \in UNION { [1..n -> AggItems] : n \in 0..MaxItems } :
       agg = [Agg0 EXCEPT !.videos = vs]

\* members_averages, lines 280-310, on the videos.
MembersAggregate ==
  /\ prog = "aggregate" /\ pc = "agg"
  /\ agg' = [agg EXCEPT !.m_acc = accumulate(agg.videos),
                        !.m_out = aggregate(agg.videos)]
  /\ pc' = "agg_test"
  /\ UNCHANGED <<prog, rotator, urls, ui, cache, results, file, loc, wq, pg, exh, twin,
                 rt, bf, rs>>

\* test.py main, lines 134-169, on the same videos.
TestAggregate ==
  /\ prog = "aggregate" /\ pc = "agg_test"
  /\ agg' = [agg EXCEPT !.t_acc = t_accumulate(agg.videos),
                        !.t_out = t_averages(agg.videos)]
  /\ pc' = "agg_done"
  /\ UNCHANGED <<prog, rotator, urls, ui, cache, results, file, loc, wq, pg, exh, twin,
                 rt, bf, rs>>

NextAgg == MembersAggregate \/ TestAggregate
SpecAgg == InitAgg /\ [][NextAgg]_vars

\* ------------------------------------------------------------------ claims
IsQuota(e) == e.status = 403 /\ e.reason \in {"quotaExceeded", "dailyLimitExceeded"}
IsOther(e) == e # NoErr /\ ~IsQuota(e)
Range(f) == { f[i] : i \in DOMAIN f }
LastIdx == Len(rotator.keys) - 1

\* C1: in every with_quota_rotation call the attempts use the credentials in
\* pool order, one attempt per credential (never twice in a row on the same
\* one); the credentials abandoned so far are exactly those before the active
\* one, each once and in pool order, and the active one is none of them; the
\* quota error reaches the caller only when the attempt on the last
\* credential of the pool was quota-rejected.
C1_RotationOrder ==
  /\ \A i \in 1..Len(wq.used) :
       /\ wq.idx0 + i <= Len(rotator.keys)
       /\ wq.used[i] = rotator.keys[wq.idx0 + i]
  /\ \A i \in 1..(Len(wq.used) - 1) : wq.used[i] # wq.used[i + 1]
  /\ Len(wq.gone) = rotator.idx
  /\ \A i \in 1..Len(wq.gone) : i <= Len(rotator.keys) /\ wq.gone[i] = rotator.keys[i]
  /\ rotator.client.developerKey \notin Range(wq.gone)
  /\ (~wq.open /\ IsQuota(wq.exc)) =>
       /\ IsQuota(wq.err)
       /\ wq.pre.idx = LastIdx
       /\ wq.used[Len(wq.used)] = rotator.keys[Len(rotator.keys)]

\* A call that went through a whole three-key pool and reported exhaustion.
C1_Witness ==
  /\ ~wq.open /\ IsQuota(wq.exc)
  /\ wq.used = <<1, 2, 3>> /\ wq.gone = <<1, 2>>

\* C2: the active index always satisfies 0 <= idx < len(keys), and no step
\* decreases it (it never wraps around); the pool itself never changes.
C2_IndexBoundedMonotone ==
  /\ [](rotator.idx >= 0 /\ rotator.idx < Len(rotator.keys))
  /\ [][rotator'.idx >= rotator.idx /\ rotator'.keys = rotator.keys]_vars

\* The index stands at the last key of a three-key pool and an advance was
\* requested there.
C2_Witness ==
  /\ Len(rotator.keys) = 3 /\ rotator.idx = 2
  /\ wq.called /\ ~wq.ret

\* C3: whenever next() was called by the latest attempt: at the last
\* credential it returned False and left index and client handle as they
\* were; at an earlier index it returned True, the index moved forward by
\* exactly one and the client handle is the one built for the credential at
\* the new index.
C3_NextFrame ==
  wq.called =>
    IF wq.pre.idx + 1 >= Len(wq.pre.keys)
      THEN ~wq.ret /\ rotator = wq.pre
      ELSE /\ wq.ret
           /\ rotator.idx = wq.pre.idx + 1
           /\ rotator.keys = wq.pre.keys
           /\ rotator.client = build(rotator.keys[rotator.idx + 1])
           /\ rotator.client # wq.pre.client

\* A call in which next() first advanced and then failed at the last key.
C3_Witness ==
  /\ wq.called /\ ~wq.ret
  /\ Len(wq.used) >= 2
  /\ rotator.idx = LastIdx

\* C4 as stated: a non-quota error reaches the caller after exactly one
\* attempt of the call, with the active index where it was when the call
\* began.
C4_Original ==
  (~wq.open /\ IsOther(wq.err)) =>
    /\ wq.exc = wq.err
    /\ wq.tries = 1
    /\ rotator.idx = wq.idx0

\* C4 (amended): an attempt that raises a non-quota error ends the call: that
\* same error is raised to the caller, next() is not called, and index and
\* client handle are as they were before that attempt; the only earlier
\* attempts of the call are the quota-rejected ones that rotated the pool.
C4_OtherErrorPropagates ==
  IsOther(wq.err) =>
    /\ ~wq.open
    /\ wq.exc = wq.err
    /\ ~wq.called
    /\ rotator = wq.pre
    /\ wq.tries = (rotator.idx - wq.idx0) + 1

\* A 403 that is not a quota error reached the caller after a rotation.
C4_Witness ==
  /\ ~wq.open /\ wq.err = [status |-> 403, reason |-> "forbidden"]
  /\ wq.exc = wq.err
  /\ wq.tries = 2

\* C5 as stated: once the quota error has been re-raised by
\* with_quota_rotation (no credential remains), the run only writes what it
\* has gathered and stops: no row is added, no further channel is taken and
\* no remote call is made after it.
C5_Original ==
  exh.happened =>
    /\ ui = exh.ui
    /\ ~exh.after
    /\ Len(results) = exh.nres
    /\ pc \in {"loop", "done"}
    /\ pc = "done" => file.rows = results

\* C6 as stated: a run that exhausted its credentials ends with an artifact
\* holding exactly the rows gathered before the exhaustion, and no row for
\* the channel in progress or a later one.
C6_Original ==
  (pc = "done" /\ exh.happened) =>
    /\ Len(file.rows) = exh.nres
    /\ file.rows = SubSeq(results, 1, exh.nres)

\* C7: when both comparison runs are over, the artifact of the run on the
\* pool of the last key alone equals the artifact of the run in which the
\* earlier keys were quota-rejected.
C7_SameOutput ==
  (twin.run = 2 /\ pc = "done") => file = twin.out1

\* Both runs are over, the first went through keys 1 and 2 of a three-key
\* pool, and two channels were recorded.
C7_Witness ==
  /\ twin.run = 2 /\ pc = "done"
  /\ twin.n1 = 3 /\ twin.idx1 = 2
  /\ Len(file.rows) = 2

Ids(items) == [j \in 1..Len(items) |-> items[j].videoId]
SearchPagesIds(chid, k) == Concat([i \in 1..k |-> Ids(SearchItems(chid, i))])
PlaylistPagesItems(plid, k) == Concat([i \in 1..k |-> PlaylistItems(plid, i)])
Completed(kind) == pg.kind = kind /\ ~pg.open /\ ~pg.raised

\* C8: a collection over a listing of K pages (K below the cap for
\* list_video_ids_in_period) that has returned made exactly K answered page
\* requests (plus one per quota-rejected attempt), the first with no cursor
\* and each later one with the cursor the previous page returned; it
\* returned the items of pages 1..K in order and slept K-1 times.
C8_PagesCollected ==
  /\ (Completed("search") /\ SearchLast(pg.arg) \in 1..(max_pages - 1)) =>
       LET K == SearchLast(pg.arg)
       IN /\ Len(pg.toks) = K
          /\ pg.att = K + pg.rej
          /\ pg.toks[1] = NoTok
          /\ \A i \in 2..K :
               pg.toks[i] = RemoteSearch(pg.arg, pg.toks[i - 1]).nextPageToken
          /\ pg.ret = SearchPagesIds(pg.arg, K)
          /\ pg.delays = K - 1
  /\ (Completed("playlist") /\ PlaylistLast(pg.arg) >= 1) =>
       LET K == PlaylistLast(pg.arg)
       IN /\ Len(pg.toks) = K
          /\ pg.att = K + pg.rej
          /\ pg.toks[1] = NoTok
          /\ \A i \in 2..K :
               pg.toks[i] = RemotePlaylist(pg.arg, pg.toks[i - 1]).nextPageToken
          /\ pg.ret = PlaylistPagesItems(pg.arg, K)
          /\ pg.delays = K - 1

\* The two-page listing of channel 1 was collected: three ids, one sleep.
C8_Witness ==
  /\ Completed("search") /\ pg.arg = UC1
  /\ Len(pg.toks) = 2 /\ Len(pg.ret) = 3 /\ pg.delays = 1

\* C9: list_video_ids_in_period never makes more than max_pages answered
\* page requests and never asks for page max_pages + 1; on a listing that
\* never returns a null cursor, the answer to request max_pages ends the
\* collection without an error, returning the items of pages 1..max_pages.
C9_CapTruncates ==
  pg.kind = "search" =>
    /\ Len(pg.toks) <= max_pages
    /\ \A i \in 1..Len(pg.toks) : TokenPage(pg.toks[i]) <= max_pages
    /\ (SearchLast(pg.arg) = 0 /\ Len(pg.toks) = max_pages) =>
         /\ ~pg.open /\ ~pg.raised
         /\ pg.ret = SearchPagesIds(pg.arg, max_pages)
         /\ pc # "list"

\* The endless listing of channel 2 was cut at the cap.
C9_Witness ==
  /\ Completed("search") /\ pg.arg = UC2
  /\ Len(pg.toks) = max_pages /\ Len(pg.ret) = max_pages

\* The loops that are bounded: attempts of one with_quota_rotation call by
\* the pool, answered pages of list_video_ids_in_period by max_pages,
\* attempts of one fetch_videos batch by MAX_RETRIES + 1.
BoundedLoops ==
  /\ Len(wq.used) <= Len(rotator.keys)
  /\ pg.kind = "search" => Len(pg.toks) <= max_pages
  /\ rt.attempts <= MAX_RETRIES + 1

\* C10 as stated: every loop is bounded, the playlist pagination loop too
\* when the remote always returns a non-null cursor.
C10_Original ==
  /\ BoundedLoops
  /\ (pg.kind = "playlist" /\ PlaylistLast(pg.arg) = 0) => Len(pg.toks) <= max_pages

\* ------------------------------------------------------------------ batch fetching
Ceil(n, b) == (n + b - 1) \div b
ChunkAt(ids, i) == SubSeq(ids, BatchSize * (i - 1) + 1, Min(BatchSize * i, Len(ids)))
AllOk == \A i \in 1..Len(bf.ok) : bf.ok[i]

\* What the chunks answered so far add up to, for each kind of fetcher.
OkItems == Concat([i \in 1..Len(bf.reqs) |->
                     IF bf.ok[i] THEN RemoteVideosDetails(bf.reqs[i]) ELSE <<>>])
OkStats(key) == Concat([i \in 1..Len(bf.reqs) |->
                          IF bf.ok[i] THEN StatValues(RemoteVideosStats(bf.reqs[i]), key)
                          ELSE <<>>])
OutIsConcat ==
  IF bf.kind = "stats"
    THEN bf.out.views = OkStats("viewCount") /\ bf.out.comments = OkStats("commentCount")
    ELSE bf.out.items = OkItems

\* C11: in every batch fetch over an id list of length N, the i-th request
\* carries the ids BatchSize*(i-1)+1 .. min(BatchSize*i, N) of the list in
\* input order, so every chunk is non-empty and holds at most BatchSize ids;
\* a fetch that returned with no request failed made exactly
\* ceil(N / BatchSize) requests (none for N = 0) and returned the
\* concatenation of their responses in chunk order.
C11_ChunksInOrder ==
  bf.kind # "" =>
    /\ \A i \in 1..Len(bf.reqs) :
         /\ bf.reqs[i] = ChunkAt(bf.ids, i)
         /\ bf.reqs[i] # <<>>
         /\ Len(bf.reqs[i]) <= BatchSize
    /\ Len(bf.reqs) <= Ceil(Len(bf.ids), BatchSize)
    /\ (bf.ended /\ ~bf.raised /\ AllOk) =>
         /\ Len(bf.reqs) = Ceil(Len(bf.ids), BatchSize)
         /\ OutIsConcat

\* fetch_video_stats returned after a full chunk and a shorter last one.
C11_Witness ==
  /\ bf.kind = "stats" /\ bf.ended /\ ~bf.raised /\ AllOk
  /\ Len(bf.ids) = BatchSize + 1
  /\ Len(bf.reqs) = 2 /\ Len(bf.reqs[1]) = BatchSize /\ Len(bf.reqs[2]) = 1
  /\ bf.out.views # <<>>

\* Fetches over an empty list and over a list of exactly BatchSize ids.
C11_EmptyList == bf.kind = "details" /\ bf.ended /\ bf.ids = <<>> /\ bf.reqs = <<>>
C11_ExactMultiple ==
  bf.kind = "stats" /\ bf.ended /\ ~bf.raised /\ Len(bf.ids) = BatchSize /\ Len(bf.reqs) = 1

\* C12 as stated: a batch fetch always comes to its end by returning, having
\* handled every chunk of its list, and what it returns is the concatenation
\* of the responses of the chunks that were answered (a chunk that failed
\* adds nothing).
C12_Original ==
  bf.ended =>
    /\ ~bf.raised
    /\ Len(bf.reqs) = Ceil(Len(bf.ids), BatchSize)
    /\ OutIsConcat

\* What holds of fetch_videos of test.py alone.
C12_TestFetchVideos == bf.kind = "videos" => C12_Original

\* ------------------------------------------------------------------ the retry loop of fetch_videos
\* A batch is attempted at most MAX_RETRIES + 1 times; the wait before retry r
\* is 0.5 * 2^r seconds (waits are counted in half seconds), so every wait is
\* twice the one before; a batch that was given up made MAX_RETRIES + 1
\* failed attempts, added nothing, and the fetch went on without raising.
RetryBounded ==
  /\ rt.attempts <= MAX_RETRIES + 1
  /\ Len(rt.waits) <= MAX_RETRIES
  /\ \A r \in 1..Len(rt.waits) : rt.waits[r] = Pow2(r)
  /\ \A r \in 2..Len(rt.waits) : rt.waits[r] = 2 * rt.waits[r - 1]
  /\ rt.gaveUp =>
       /\ rt.attempts = MAX_RETRIES + 1
       /\ Len(rt.waits) = MAX_RETRIES
       /\ rt.added = 0
       /\ pc \in {"t_videos", "t_done"}

\* A batch was given up after the waits of 1, 2 and 4 seconds.
RetryGaveUp == rt.gaveUp /\ rt.waits = <<2, 4, 8>> /\ pc = "t_done" /\ file.exists

\* C13 as stated: the retry loop is bounded and backs off as above, and no
\* retry is ever made after a quota error.
C13_Original ==
  /\ RetryBounded
  /\ ~rt.quota

\* ------------------------------------------------------------------ time windows
MembersDone == prog = "aggregate" /\ pc \in {"agg_test", "agg_done"}
TestDone == prog = "aggregate" /\ pc = "agg_done"

\* The positions of the videos published within the last 30 * months days and
\* not after now, and those among them that carry a parseable value for key.
InSpan(months) ==
  { i \in 1..Len(agg.videos) :
      /\ agg.videos[i].publishedAt # Blank
      /\ Now - 30 * months <= agg.videos[i].publishedAt[1]
      /\ agg.videos[i].publishedAt[1] <= Now }
Carrying(months, key) ==
  { i \in InSpan(months) : agg.videos[i][key] # Blank /\ agg.videos[i][key] # Junk }

RECURSIVE SumAt(_, _)
SumAt(S, key) ==
  IF S = {} THEN 0
  ELSE LET i == CHOOSE j \in S : TRUE
       IN agg.videos[i][key][1] + SumAt(S \ {i}, key)

\* sum / number of carriers, and 0.0 when there is none.
MeanOf(months, key) ==
  IF Carrying(months, key) = {} THEN [num |-> 0, den |-> 1]
  ELSE [num |-> SumAt(Carrying(months, key), key),
        den |-> Cardinality(Carrying(months, key))]

RECURSIVE IsSubSeq(_, _)
IsSubSeq(a, b) ==
  IF a = <<>> THEN TRUE
  ELSE IF b = <<>> THEN FALSE
  ELSE IF Head(a) = Head(b) THEN IsSubSeq(Tail(a), Tail(b))
  ELSE IsSubSeq(a, Tail(b))

\* C14: the count members_averages returns for the window of m months is the
\* number of videos whose publish instant p satisfies
\* now - 30*m days <= p <= now, both ends included and future videos
\* excluded, whatever statistics the videos carry.
C14_WindowCount ==
  MembersDone =>
    /\ agg.m_out.count_1m = Cardinality(InSpan(1))
    /\ agg.m_out.count_2m = Cardinality(InSpan(2))

\* The videos published 10, 40 and 70 days ago: one in the 1-month window,
\* two in the 2-month window.
C14_Witness ==
  /\ MembersDone
  /\ agg.videos = << Video(Some(Now - 10), Some(4), Some(2)),
                     Video(Some(Now - 40), Blank, Some(6)),
                     Video(Some(Now - 70), Some(9), Some(1)) >>
  /\ agg.m_out.count_1m = 1 /\ agg.m_out.count_2m = 2

\* C15: after either aggregation loop, what was counted and accumulated for
\* the 1-month window is also counted and accumulated for the 2-month
\* window: count_1m <= count_2m, and the likes and the comments of the
\* 1-month window are a sub-collection of those of the 2-month window.
C15_WindowsNested ==
  /\ MembersDone =>
       /\ agg.m_acc.count_1m <= agg.m_acc.count_2m
       /\ InSpan(1) \subseteq InSpan(2)
       /\ IsSubSeq(agg.m_acc.likes_1m, agg.m_acc.likes_2m)
       /\ IsSubSeq(agg.m_acc.comms_1m, agg.m_acc.comms_2m)
  /\ TestDone =>
       /\ IsSubSeq(agg.t_acc.likes_1m, agg.t_acc.likes_2m)
       /\ IsSubSeq(agg.t_acc.comms_1m, agg.t_acc.comms_2m)

\* Both loops ran on videos of which some fall in the 1-month window and more
\* in the 2-month window.
C15_Witness ==
  /\ TestDone
  /\ agg.m_acc.count_1m >= 1 /\ agg.m_acc.count_2m > agg.m_acc.count_1m
  /\ agg.m_acc.likes_1m # <<>> /\ Len(agg.m_acc.likes_2m) > Len(agg.m_acc.likes_1m)
  /\ agg.t_acc.comms_1m # <<>> /\ Len(agg.t_acc.comms_2m) > Len(agg.t_acc.comms_1m)

\* C16: every mean returned by either loop is the sum of the values of the
\* in-window videos that carry a parseable value for the field divided by
\* the number of those videos, and it is 0.0 (no division by zero) when no
\* in-window video carries the field, the empty list included.
C16_MeanOverCarriers ==
  /\ MembersDone =>
       /\ agg.m_out.avg_like_1m = MeanOf(1, "likeCount")
       /\ agg.m_out.avg_comm_1m = MeanOf(1, "commentCount")
       /\ agg.m_out.avg_like_2m = MeanOf(2, "likeCount")
       /\ agg.m_out.avg_comm_2m = MeanOf(2, "commentCount")
  /\ TestDone =>
       /\ agg.t_out.avg_like_1m = MeanOf(1, "likeCount")
       /\ agg.t_out.avg_comm_1m = MeanOf(1, "commentCount")
       /\ agg.t_out.avg_like_2m = MeanOf(2, "likeCount")
       /\ agg.t_out.avg_comm_2m = MeanOf(2, "commentCount")
  /\ \A k \in {"avg_like_1m", "avg_comm_1m", "avg_like_2m", "avg_comm_2m"} :
       agg.m_out[k].den >= 1 /\ agg.t_out[k].den >= 1

\* Two videos in the 2-month window, one of them without likes: the mean of
\* likes is over one video, the mean of comments over two; a third video
\* carries an unparseable like count and is left out as well.
C16_Witness ==
  /\ TestDone
  /\ agg.videos = << Video(Some(Now - 10), Some(4), Some(2)),
                     Video(Some(Now - 40), Blank, Some(6)),
                     Video(Some(Now - 31), Junk, Some(5)) >>
  /\ agg.m_out.avg_like_2m = [num |-> 4, den |-> 1]
  /\ agg.m_out.avg_comm_2m = [num |-> 13, den |-> 3]
  /\ agg.t_out.avg_like_2m = [num |-> 4, den |-> 1]

\* No video in the window carries likes: the mean is 0.0.
C16_ZeroMean ==
  /\ TestDone /\ InSpan(2) # {} /\ Carrying(2, "likeCount") = {}
  /\ agg.m_out.avg_like_2m = Zero /\ agg.t_out.avg_like_2m = Zero

\* ------------------------------------------------------------------ resolution and its cache
\* C17: what the first resolve_channel_id call on a reference returned stays
\* in the cache under that reference, whatever is resolved afterwards; a
\* later call on the same reference makes no remote attempt, leaves the
\* credential pool alone and returns that same result.
C17_CachedAgain ==
  /\ \A u \in DOMAIN rs.first : u \in DOMAIN cache /\ cache[u] = rs.first[u]
  /\ rs.again => rs.calls = 0
  /\ (rs.again /\ rs.done) =>
       /\ rs.ret = rs.first[rs.url]
       /\ rs.post = rs.pre

\* The third reference of the list repeats the first, another one was
\* resolved in between, and the repeated call returned the identifier.
C17_Witness ==
  /\ urls = <<RefG, RefUser, RefG>> /\ ui = 3
  /\ rs.again /\ rs.done /\ rs.ret = UC5
  /\ RefUser \in DOMAIN cache

\* The same with a reference whose first resolution failed.
C17_NegativeCached ==
  /\ urls = <<RefUser, RefQ, RefUser>> /\ ui = 3
  /\ rs.again /\ rs.done /\ rs.ret = NoSeg

\* A reference that has the shape of a canonical id: a channel URL carrying
\* the id in its path or in its channel= parameter, or the bare id string.
IsIdSeg(seg) == seg.pre = "UC" /\ seg.len >= 20
IsBareId(url) == ~url.scheme /\ Len(url.path) = 1 /\ IsIdSeg(url.path[1])
IsIdUrl(url) ==
  \/ Len(url.path) = 2 /\ url.path[1] = Word("channel") /\ IsIdSeg(url.path[2])
  \/ url.path = <<>> /\ IsIdSeg(url.channel)
IdOf(url) ==
  IF IsBareId(url) THEN url.path[1]
  ELSE IF url.path = <<>> THEN url.channel ELSE url.path[2]

\* resolve_channel_id returned the id the reference carries, with no remote
\* attempt and the credential pool untouched.
ResolvedLocally ==
  /\ rs.ret = IdOf(rs.url)
  /\ rs.calls = 0
  /\ rs.post = rs.pre

\* C18 as stated: every id-shaped reference, URL or bare id string, is
\* resolved to its id with no remote call and without touching the pool.
C18_Original ==
  /\ (IsIdUrl(rs.url) \/ IsBareId(rs.url)) => rs.calls = 0
  /\ (rs.done /\ (IsIdUrl(rs.url) \/ IsBareId(rs.url))) => ResolvedLocally

\* What holds of the channel URLs alone.
C18_IdUrls ==
  /\ IsIdUrl(rs.url) => rs.calls = 0
  /\ (rs.done /\ IsIdUrl(rs.url)) => ResolvedLocally

\* C19: when the lookup of resolve_channel_id raised an error that is not a
\* quota error, the function returned None without raising, None is in the
\* cache under the raw reference, no row was added for the channel, and the
\* loop of main is back at its head, where it takes the next reference if
\* there is one (the run is over only when the list is).
C19_LookupErrorSkips ==
  (rs.done /\ IsOther(rs.err)) =>
    /\ rs.ret = NoSeg
    /\ rs.url \in DOMAIN cache /\ cache[rs.url] = NoSeg
    /\ Len(results) = rs.nres
    /\ pc = "loop" \/ (pc = "done" /\ ui = Len(urls))
    /\ (pc = "loop" /\ ui < Len(urls)) => ENABLED LoopNext

\* The lookup of the first reference (which the remote would have resolved)
\* raised a non-quota error, and the run went on to resolve the second one.
C19_Witness ==
  /\ ui = 2 /\ urls[1] = RefG /\ urls[2] # RefG
  /\ RefG \in DOMAIN cache /\ cache[RefG] = NoSeg
  /\ ~exh.happened
  /\ rs.done /\ rs.url = urls[2]

\* ------------------------------------------------------------------ errors while a channel is processed
\* The latest with_quota_rotation call, made at one of the given steps of the
\* channel in progress, raised an error that is not a quota error.
OtherErrorAt(stages) == ~wq.open /\ IsOther(wq.exc) /\ wq.stage \in stages

\* The channel in progress was skipped: no row was added for it and the loop
\* of main is back at its head (the run is over only when the list is).
ChannelSkipped ==
  /\ Len(results) = rs.nres
  /\ pc = "loop" \/ (pc = "done" /\ ui = Len(urls))

\* C20 as stated: a non-quota error of any remote call made while a channel
\* is processed (channel info, period listing, video statistics, members-only
\* playlist, video details) leaves the channel without a row, and the run
\* goes on with the next channel.
C20_Original ==
  OtherErrorAt({"info", "list", "stats", "playlist", "details"}) => ChannelSkipped

\* What holds of the calls main makes outside members_averages.
C20_MainCalls == OtherErrorAt({"info", "list", "stats"}) => ChannelSkipped

\* ------------------------------------------------------------------ classification
\* The patterns of extract_from_url, each on its own: the canonical id
\* (channel/UC followed by 20 or more characters, nothing after it), the
\* handle (the reference or its path starts with "@"), the legacy username
\* (user/<name>) and the vanity path (c/<name>, or any other non-empty path).
IdPattern(u) ==
  /\ Len(u.path) = 2 /\ u.path[1] = Word("channel")
  /\ u.path[2].pre = "UC" /\ u.path[2].len >= 20
HandlePattern(u) == u.path # <<>> /\ u.path[1].pre = "@"
UserPattern(u) == Len(u.path) = 2 /\ u.path[1] = Word("user")
VanityPattern(u) == u.path # <<>>
QueryId(u) == u.path = <<>> /\ u.channel.pre = "UC"

Classified == prog = "classify" /\ pc = "classified"

\* C21: a reference matching the canonical-id pattern is classified
\* channel_id whatever later pattern it also matches; otherwise one matching
\* the handle pattern is a handle; otherwise one matching the username
\* pattern is a username; otherwise one matching the vanity pattern is a
\* custom name; the free-text class (guess) is given only to a reference
\* matching none of the four, and channel_id otherwise only to a reference
\* without a path whose channel= parameter carries an id.  The class fixes
\* the request: none for channel_id, channels.list(forHandle) for a handle,
\* channels.list(forUsername) for a username, search.list for the rest.
C21_StrictPriority ==
  Classified =>
    LET u == loc.url
        k == loc.kind
    IN /\ k \in {"channel_id", "handle", "username", "custom", "guess"}
       /\ IdPattern(u) => k = "channel_id" /\ loc.value = <<u.path[2]>>
       /\ (~IdPattern(u) /\ HandlePattern(u)) => k = "handle"
       /\ (~IdPattern(u) /\ ~HandlePattern(u) /\ UserPattern(u)) =>
            k = "username" /\ loc.value = <<u.path[2]>>
       /\ (~IdPattern(u) /\ ~HandlePattern(u) /\ ~UserPattern(u) /\ VanityPattern(u)) =>
            k = "custom"
       /\ k = "guess" =>
            ~IdPattern(u) /\ ~HandlePattern(u) /\ ~UserPattern(u) /\ ~VanityPattern(u)
       /\ k = "channel_id" => IdPattern(u) \/ QueryId(u)
       /\ loc.strategy =
            (CASE k = "channel_id" -> "none"
               [] k = "handle" -> "channels.list(forHandle)"
               [] k = "username" -> "channels.list(forUsername)"
               [] OTHER -> "search.list(q)")

\* A channel URL that matches the id pattern and, having a path, the vanity
\* pattern as well, and that also carries a channel= parameter: channel_id
\* with the id of the path, no request.
C21_Witness ==
  /\ Classified
  /\ loc.url = [scheme |-> TRUE, path |-> <<Word("channel"), UC1>>, channel |-> UC5]
  /\ loc.kind = "channel_id" /\ loc.value = <<UC1>> /\ loc.strategy = "none"

\* References of the other classes, and one that falls through.
C21_Handle == Classified /\ loc.kind = "handle" /\ loc.url.scheme /\ Len(loc.url.path) = 2
C21_Username == Classified /\ loc.kind = "username"
C21_Vanity == Classified /\ loc.kind = "custom" /\ loc.url.path[1] = Word("c")
C21_FallsThrough == Classified /\ loc.kind = "guess" /\ loc.url.channel = Word("x")
C21_QueryId == Classified /\ loc.kind = "channel_id" /\ QueryId(loc.url)

\* An id in the channel= parameter ranks below every pattern on the path.
C21_QueryIdBelowHandle ==
  /\ Classified /\ loc.kind = "handle"
  /\ loc.url.channel = UC5

\* ------------------------------------------------------------------ rotation in mid-sequence
PosOf(k) == CHOOSE i \in DOMAIN rotator.keys : rotator.keys[i] = k
SameParameters(a, b) == a.op = b.op /\ a.token = b.token /\ a.ids = b.ids
LastReq == wq.reqs[Len(wq.reqs)]
\* The latest attempt was quota-rejected and the pool rotated.
JustRotated == wq.open /\ wq.called /\ wq.ret

\* What the pages answered so far add up to.
PagesSoFar ==
  IF pg.kind = "search" THEN SearchPagesIds(pg.arg, Len(pg.toks))
  ELSE PlaylistPagesItems(pg.arg, Len(pg.toks))
CursorAfter(tok) ==
  IF pg.kind = "search" THEN RemoteSearch(pg.arg, tok).nextPageToken
  ELSE RemotePlaylist(pg.arg, tok).nextPageToken

\* C22: within one with_quota_rotation call every attempt after a
\* quota rejection and rotation makes the request of the rejected attempt
\* again (same operation, same cursor, same chunk) on the key that follows
\* the rejected one in the pool.  So the answered page requests of a listing
\* carry, in order, no cursor and then the cursor each previous answer
\* returned, and the items gathered are those of the pages answered, each
\* once; the answered requests of a batch fetch carry the chunks of the id
\* list in order, each once, and what is gathered is the concatenation of
\* their answers.  No attempt of the rest of the run is made on a key that
\* was rotated away from: the current client's key and the key of the
\* latest attempt come after every such key in the pool.
C22_RetrySameRequest ==
  prog = "analytics" =>
    /\ \A i \in 1..(Len(wq.reqs) - 1) :
         /\ SameParameters(wq.reqs[i + 1], wq.reqs[i])
         /\ PosOf(wq.reqs[i + 1].key) = PosOf(wq.reqs[i].key) + 1
    /\ rotator.client.developerKey = rotator.keys[rotator.idx + 1]
    /\ \A j \in 1..Len(wq.gone) :
         /\ PosOf(wq.gone[j]) < PosOf(rotator.client.developerKey)
         /\ wq.reqs # <<>> =>
              IF JustRotated /\ j = Len(wq.gone)
                THEN wq.gone[j] = LastReq.key
                ELSE PosOf(wq.gone[j]) < PosOf(LastReq.key)
    /\ (pg.kind \in {"search", "playlist"} /\ pg.toks # <<>>) =>
         /\ pg.toks[1] = NoTok
         /\ \A i \in 2..Len(pg.toks) : pg.toks[i] = CursorAfter(pg.toks[i - 1])
         /\ \A i, j \in 1..Len(pg.toks) : i # j => pg.toks[i] # pg.toks[j]
         /\ pg.ret = PagesSoFar
    /\ (bf.kind \in {"stats", "details"}) =>
         /\ \A i \in 1..Len(bf.reqs) : bf.reqs[i] = ChunkAt(bf.ids, i)
         /\ (~bf.ended /\ AllOk /\ pc = bf.kind) =>
              IF bf.kind = "stats"
                THEN /\ loc.views = OkStats("viewCount")
                     /\ loc.comments = OkStats("commentCount")
                ELSE loc.videos = OkItems

\* The request for the second page of a listing was quota-rejected, made
\* again with the same cursor on the next key and answered; the request for
\* the third page was answered on that key.
C22_Witness ==
  /\ prog = "analytics" /\ pg.kind = "search"
  /\ Len(pg.toks) = 3 /\ pg.rej = 1 /\ pg.att = 4
  /\ wq.gone = <<1>> /\ wq.reqs = <<[key |-> 2, op |-> "list", token |-> 3, ids |-> <<>>]>>
  /\ exh.happened = FALSE
  /\ pg.ret = PagesSoFar

\* The retry itself, in a listing and in a batch fetch.
C22_PageRetried ==
  /\ prog = "analytics" /\ pc = "list" /\ ~wq.open
  /\ Len(wq.reqs) = 2 /\ wq.reqs[1].token # NoTok
  /\ wq.reqs[2].token = wq.reqs[1].token /\ wq.reqs[2].key # wq.reqs[1].key
  /\ Len(pg.toks) = 2
C22_ChunkRetried ==
  /\ prog = "analytics" /\ pc = "details" /\ ~wq.open
  /\ Len(wq.reqs) = 2 /\ wq.reqs[2].ids = ChunkAt(bf.ids, 2)
  /\ wq.reqs[2].ids = wq.reqs[1].ids /\ wq.reqs[2].key # wq.reqs[1].key
  /\ Len(bf.reqs) = 2

\* A key rotated away from during the first channel is not used for the
\* first request of the second channel.
C22_NextChannel ==
  /\ prog = "analytics" /\ ui = 2 /\ Len(results) = 1
  /\ wq.stage = "lookup" /\ rs.calls = 1 /\ wq.tries = 1
  /\ wq.gone = <<1>> /\ LastReq.key = 2
====
